---- MODULE Spec2Model ----
(***************************************************************************)
(* Model of the promise / microtask / native-function bridge of spiderfire *)
(*   ion/src/objects/promise.rs       Promise wrapper                      *)
(*   ion/src/functions/function.rs    IonFunction wrapper                  *)
(*   runtime/src/globals/microtasks.rs  queueMicrotask                     *)
(*   runtime/src/modules/handler.rs   default rejection reaction           *)
(* The engine primitives the wrappers forward to (NewPromiseObject,        *)
(* ResolvePromise, RejectPromise, AddPromiseReactions, JS_CallFunction)    *)
(* are modelled at their call sites with the semantics of the engine's     *)
(* promise implementation.  The event loop's queue and drain loop are not  *)
(* part of the sources at hand and follow the written specification.       *)
(***************************************************************************)
EXTENDS Integers, Sequences, FiniteSets, TLC

(* ------------------------------ bounds --------------------------------- *)
MaxPromises == 2
MaxVal == 1
MaxReactions == 2
MaxCalls == 3
MaxFuncs == 3
MaxExecCalls == 1

VARIABLES
  made,       \* history: how each promise object was constructed, by id
  pstate,     \* GetPromiseState of each promise object
  presult,    \* GetPromiseResult of each promise object
  locked,     \* the promise's resolving functions have already been used
  reactions,  \* reaction records waiting on a Pending promise
  queueInit,  \* EVENT_LOOP.microtasks is Some
  queue,      \* the microtask queue, FIFO
  draining,   \* a drain of the microtask queue is in progress
  pending,    \* the engine's pending exception
  regs,       \* history: every reaction registration, in order
  fireLog,    \* history: every reaction job run, in order: the handler's argument,
              \* what the host handler returned and what the callable reported
  reports,    \* history: every formatted report printed, in order
  cbs,        \* history: every callback accepted by queueMicrotask, in order
  funcs,      \* the engine objects the host made, functions and others
  runLog,     \* history: tickets of the user callbacks run, in order
  execLog,    \* history: what every executor did, in order
  last        \* history: the last operation and what it returned

vars == <<made, pstate, presult, locked, reactions, queueInit, queue, draining,
          pending, regs, fireLog, reports, cbs, funcs, runLog, execLog, last>>

(* ------------------------------ values --------------------------------- *)
\* number of promise objects allocated so far
np == Len(made)
PIDs == 1..MaxPromises
Plain == 1..MaxVal

Undefined == [t |-> "undef", n |-> 0]
IntVal(k) == [t |-> "int", n |-> k]
ObjVal(p) == [t |-> "obj", n |-> p]
ErrVal(k) == [t |-> "error", n |-> k]
TypeErrorVal == [t |-> "typeerror", n |-> 0]
NoExc == [t |-> "none", n |-> 0]

\* host values a future or a caller can hand over: an i32 or an object pointer
HostInt(k) == <<"i32", k>>
HostPtr(p) == <<"ptr", p>>

\* ToValue::as_value: i32 -> Int32Value, *mut JSObject -> ObjectValue
as_value(h) == IF h[1] = "i32" THEN IntVal(h[2]) ELSE ObjVal(h[2])

IsThenable(v) == v.t = "obj"

(* --------------------- engine state as one record ---------------------- *)
Cur ==
  [st |-> pstate, res |-> presult, lk |-> locked, rx |-> reactions,
   q |-> queue, exc |-> pending, log |-> fireLog, rep |-> reports,
   cbs |-> cbs, run |-> runLog, ex |-> execLog]

Commit(E) ==
  /\ pstate' = E.st
  /\ presult' = E.res
  /\ locked' = E.lk
  /\ reactions' = E.rx
  /\ queue' = E.q
  /\ pending' = E.exc
  /\ fireLog' = E.log
  /\ reports' = E.rep
  /\ cbs' = E.cbs
  /\ runLog' = E.run
  /\ execLog' = E.ex

(* ------------------------ microtask queue items ------------------------ *)
UserTask(ticket) == [kind |-> "User", a |-> ticket, b |-> 0, c |-> "", v |-> Undefined]
\* engine-internal notification: run reaction rid (0: the pass-through
\* reaction of a thenable job, settling target b) on branch c with argument v
ReactionJob(rid, target, branch, v) ==
  [kind |-> "Reaction", a |-> rid, b |-> target, c |-> branch, v |-> v]
\* engine-internal: promise a was resolved with promise b
ThenableJob(p, q) == [kind |-> "Thenable", a |-> p, b |-> q, c |-> "", v |-> Undefined]

\* MicrotaskQueue::enqueue
enqueue(E, item) == [E EXCEPT !.q = Append(@, item)]

(* ------------------------- engine: settlement -------------------------- *)
\* the reaction jobs enqueued last-registered first
TriggerReactionsReversed(E, p) ==
  LET rs == E.rx[p]
      n == Len(rs)
      jobs == [i \in 1..n |->
                 ReactionJob(rs[n + 1 - i].rid, rs[n + 1 - i].target, E.st[p], E.res[p])]
  IN [E EXCEPT !.q = @ \o jobs, !.rx[p] = <<>>]

\* the reaction jobs the engine enqueues when p settles, in registration order
TriggerReactions(E, p) ==
  LET rs == E.rx[p]
      jobs == [i \in 1..Len(rs) |->
                 ReactionJob(rs[i].rid, rs[i].target, E.st[p], E.res[p])]
  IN [E EXCEPT !.q = @ \o jobs, !.rx[p] = <<>>]

Settle(E, p, state, v) ==
  TriggerReactions([E EXCEPT !.st[p] = state, !.res[p] = v], p)

\* the engine's promise resolution: self-resolution is a TypeError, a
\* promise is adopted through a thenable job, any other value fulfils
ResolvePromiseInternal(E, p, v) ==
  IF v = ObjVal(p) THEN Settle(E, p, "Rejected", TypeErrorVal)
  ELSE IF IsThenable(v) THEN enqueue(E, ThenableJob(p, v.n))
  ELSE Settle(E, p, "Fulfilled", v)

\* ResolvePromise without the test for an earlier settlement
ResolvePromiseUnguarded(E, p, v) ==
  ResolvePromiseInternal([E EXCEPT !.lk[p] = TRUE], p, v)

\* ResolvePromise(cx, promise, value)
ResolvePromise(E, p, v) ==
  IF E.st[p] # "Pending" \/ E.lk[p] THEN E
  ELSE ResolvePromiseInternal([E EXCEPT !.lk[p] = TRUE], p, v)

\* RejectPromise without the test for an earlier settlement
RejectPromiseUnguarded(E, p, v) ==
  Settle([E EXCEPT !.lk[p] = TRUE], p, "Rejected", v)

\* RejectPromise(cx, promise, value)
RejectPromise(E, p, v) ==
  IF E.st[p] # "Pending" \/ E.lk[p] THEN E
  ELSE Settle([E EXCEPT !.lk[p] = TRUE], p, "Rejected", v)

\* the boolean ResolvePromise / RejectPromise hand back: settling a promise
\* that is already settled is not an engine failure
SettleStatus(E, p) == TRUE

(* ------------------------------ handlers ------------------------------- *)
\* what a registration passes for one branch: nothing (a null object), a
\* trampoline around a host closure, a ready-made native function, or the
\* default rejection reaction of handler.rs
Null == "null"
Closure == "closure"
NativeFn == "native"
ON_REJECTED == "on_rejected"

\* what a host handler returns when it is finally run: Ok(value) or
\* Err(exception); its value is none of the values promises are settled with
HandlerBehs == {[ret |-> "Ok", n |-> 3], [ret |-> "Err", n |-> 2]}

\* ThrowException::throw: the error becomes the engine's pending exception
throw(E, e) == [E EXCEPT !.exc = e]

\* Exception::new(cx): takes the pending exception off the context, if any
ExceptionNew(E) ==
  IF E.exc # NoExc
  THEN [E |-> [E EXCEPT !.exc = NoExc], some |-> TRUE, exception |-> E.exc]
  ELSE [E |-> E, some |-> FALSE, exception |-> Undefined]

\* the closure reporting success whatever the host handler returned
TrampolineSwallow(E, b, arg) ==
  [E |-> E, ok |-> TRUE, rval |-> IF b.ret = "Ok" THEN IntVal(b.n) ELSE Undefined]

\* the closure `resolve` / `reject` built by add_reactions, then and catch:
\* runs the host handler; Ok(value) is stored in rval and reported as
\* success, Err(exception) is thrown and reported as failure
Trampoline(E, b, arg) ==
  IF b.ret = "Ok"
  THEN [E |-> E, ok |-> TRUE, rval |-> IntVal(b.n)]
  ELSE [E |-> throw(E, ErrVal(b.n)), ok |-> FALSE, rval |-> Undefined]

\* a native function handed to add_reactions_native, called by the engine
NativeHandler(E, b, arg) ==
  IF b.ret = "Ok"
  THEN [E |-> E, ok |-> TRUE, rval |-> IntVal(b.n)]
  ELSE [E |-> throw(E, ErrVal(b.n)), ok |-> FALSE, rval |-> Undefined]

\* on_rejected without the println of the report
on_rejectedSilent(E, rid, value) ==
  [E |-> [E EXCEPT !.exc = NoExc], ok |-> TRUE, rval |-> Undefined]

\* handler.rs on_rejected: build the report from the rejection value, clear
\* the pending exception, print the formatted report
on_rejected(E, rid, value) ==
  [E |-> [E EXCEPT !.exc = NoExc,
                   !.rep = Append(@, [src |-> "on_rejected", rid |-> rid, v |-> value])],
   ok |-> TRUE, rval |-> Undefined]

InvokeHandler(E, rid, h, b, arg) ==
  CASE h = Closure -> Trampoline(E, b, arg)
    [] h = NativeFn -> NativeHandler(E, b, arg)
    [] h = ON_REJECTED -> on_rejected(E, rid, arg)

(* ------------------------- engine: reactions --------------------------- *)
\* the engine taking the handler of the other branch
BranchSideSwapped(branch) == IF branch = "Fulfilled" THEN "onR" ELSE "onF"

\* which of the two objects handed to AddPromiseReactions a reaction job
\* takes as its handler: the first for a fulfilment, the second for a rejection
BranchSide(branch) == IF branch = "Fulfilled" THEN "onF" ELSE "onR"

\* AddPromiseReactions calling the handler at once when the promise is settled
AddPromiseReactionsInline(E, p, rid) ==
  IF E.st[p] = "Pending"
  THEN [E EXCEPT !.rx[p] = Append(@, [rid |-> rid, target |-> 0])]
  ELSE [E EXCEPT !.log = Append(@, [rid |-> rid, branch |-> E.st[p], called |-> TRUE,
                                    ok |-> TRUE, out |-> IntVal(1),
                                    arg |-> E.res[p], ret |-> "Ok",
                                    side |-> BranchSide(E.st[p])])]

\* AddPromiseReactions consuming the result of a settled promise
AddPromiseReactionsConsuming(E, p, rid) ==
  IF E.st[p] = "Pending"
  THEN [E EXCEPT !.rx[p] = Append(@, [rid |-> rid, target |-> 0])]
  ELSE [enqueue(E, ReactionJob(rid, 0, E.st[p], E.res[p])) EXCEPT !.res[p] = Undefined]

\* AddPromiseReactions(cx, promise, resolved, rejected): a Pending promise
\* keeps the reaction record, a settled one gets its reaction job enqueued;
\* no handler is called here
AddPromiseReactions(E, p, rid) ==
  IF E.st[p] = "Pending"
  THEN [E EXCEPT !.rx[p] = Append(@, [rid |-> rid, target |-> 0])]
  ELSE enqueue(E, ReactionJob(rid, 0, E.st[p], E.res[p]))

BranchHandler(rid, branch) == regs[rid][BranchSide(branch)]

\* the engine's reaction job for a reaction registered by AddPromiseReactions:
\* calls the handler of the settlement branch if there is one; a handler
\* that reports failure has its exception taken off the context
RunHostReaction(E, job, b) ==
  LET h == BranchHandler(job.a, job.c) IN
  IF h = Null
  THEN [E EXCEPT !.log = Append(@, [rid |-> job.a, branch |-> job.c, called |-> FALSE,
                                    ok |-> job.c = "Fulfilled", out |-> job.v,
                                    arg |-> job.v, ret |-> "",
                                    side |-> BranchSide(job.c)])]
  ELSE LET r == InvokeHandler(E, job.a, h, b, job.v)
           out == IF r.ok THEN r.rval ELSE r.E.exc
       IN [r.E EXCEPT !.exc = IF r.ok THEN @ ELSE NoExc,
                      !.log = Append(@, [rid |-> job.a, branch |-> job.c, called |-> TRUE,
                                         ok |-> r.ok, out |-> out,
                                         arg |-> job.v, ret |-> b.ret,
                                         side |-> BranchSide(job.c)])]

\* the pass-through reaction a thenable job leaves on the adopted promise
RunPassThrough(E, job) ==
  IF job.c = "Fulfilled"
  THEN ResolvePromiseInternal(E, job.b, job.v)
  ELSE Settle(E, job.b, "Rejected", job.v)

\* the engine's thenable job: subscribe promise p to the adopted promise q
RunThenableJob(E, p, q) ==
  IF E.st[q] = "Pending"
  THEN [E EXCEPT !.rx[q] = Append(@, [rid |-> 0, target |-> p])]
  ELSE enqueue(E, ReactionJob(0, p, E.st[q], E.res[q]))

(* --------------------------- user callbacks ---------------------------- *)
\* what a callback given to queueMicrotask does when it runs
CbNoop == [k |-> "noop", p |-> 0, n |-> 0]
CbEnqueue == [k |-> "enqueue", p |-> 0, n |-> 0]
CbResolve(p, n) == [k |-> "resolve", p |-> p, n |-> n]

\* queueMicrotask accepting the callback without putting it on the queue
EnqueueUserLost(E, cb, inDrain) ==
  [E EXCEPT !.cbs = Append(@, [cb |-> cb, inDrain |-> inDrain, seen |-> Len(E.run)])]

\* queueMicrotask putting the callback at the front of the queue
EnqueueUserFront(E, cb, inDrain) ==
  [E EXCEPT !.cbs = Append(@, [cb |-> cb, inDrain |-> inDrain, seen |-> Len(E.run)]),
            !.q = <<UserTask(Len(E.cbs) + 1)>> \o @]

\* queue.enqueue(cx, Microtask::User(callback)) of queueMicrotask
EnqueueUser(E, cb, inDrain) ==
  enqueue([E EXCEPT !.cbs = Append(@, [cb |-> cb, inDrain |-> inDrain, seen |-> Len(E.run)])],
          UserTask(Len(E.cbs) + 1))

RunUser(E, ticket) ==
  LET cb == E.cbs[ticket].cb
      E1 == [E EXCEPT !.run = Append(@, ticket)]
  IN CASE cb.k = "noop" -> E1
       [] cb.k = "enqueue" -> EnqueueUser(E1, CbNoop, TRUE)
       [] cb.k = "resolve" -> ResolvePromise(E1, cb.p, IntVal(cb.n))

\* Microtask::run
RunMicrotask(E, job, b) ==
  CASE job.kind = "User" -> RunUser(E, job.a)
    [] job.kind = "Thenable" -> RunThenableJob(E, job.a, job.b)
    [] job.kind = "Reaction" /\ job.a = 0 -> RunPassThrough(E, job)
    [] job.kind = "Reaction" /\ job.a # 0 -> RunHostReaction(E, job, b)

(* --------------------------- construction ------------------------------ *)
SettleVals == {IntVal(k) : k \in Plain} \cup {ObjVal(q) : q \in 1..np}
HostVals == {HostInt(k) : k \in Plain} \cup {HostPtr(q) : q \in 1..np}

\* NewPromiseObject allocates the object in state Pending
Alloc(E, p) ==
  [E EXCEPT !.st[p] = "Pending", !.res[p] = Undefined, !.lk[p] = FALSE, !.rx[p] = <<>>]

\* how the engine's call of a resolving function ends: it succeeds, it fails
\* with an exception, or it fails without one
CallOutcomes == {"ok", "throw", "fail"}

\* the two resolving functions taken from the arguments in the wrong order
CallResolvingSwapped(E, p, c) ==
  IF c.f = "resolve" THEN RejectPromise(E, p, c.v) ELSE ResolvePromise(E, p, c.v)

\* the resolve / reject function the engine passes to an executor, invoked
\* through Function::call: a call that succeeds settles the promise; after
\* one that fails Exception::new takes the exception off the context
CallResolving(E, p, c) ==
  CASE c.out = "ok" ->
         IF c.f = "resolve" THEN ResolvePromise(E, p, c.v) ELSE RejectPromise(E, p, c.v)
    [] c.out = "throw" -> ExceptionNew(throw(E, ErrVal(1))).E
    [] c.out = "fail" -> ExceptionNew(E).E

\* what Function::call returns for that call
CallResult(E, c) ==
  CASE c.out = "ok" -> [ret |-> "Ok", v |-> Undefined]
    [] c.out = "throw" -> [ret |-> "Err(Some)", v |-> ErrVal(1)]
    [] c.out = "fail" ->
         IF ExceptionNew(E).some THEN [ret |-> "Err(Some)", v |-> ExceptionNew(E).exception]
         ELSE [ret |-> "Err(None)", v |-> Undefined]

\* an entry of execLog
ExecEvent(p, ev, f, ret) == [p |-> p, ev |-> ev, f |-> f, ret |-> ret]
\* execLog keeps the first call an executor makes of a resolving function
\* (later ones find the promise already resolved)
LogCall(ex, p, f, ret) ==
  IF ex[Len(ex)].ev = "begin" THEN Append(ex, ExecEvent(p, "call", f, ret)) ELSE ex

\* the executor of block_on_future letting the microtask at the front of the
\* queue run once its call has returned
ReportCallYielding(E, p, c) ==
  LET r == CallResult(E, c)
      E1 == [CallResolving(E, p, c) EXCEPT !.ex = LogCall(@, p, c.f, r.ret)]
  IN IF E1.q = <<>> THEN E1
     ELSE RunMicrotask([E1 EXCEPT !.q = Tail(@)], Head(E1.q), [ret |-> "Ok", n |-> 3])

\* one call of a resolving function by an executor; the executor of
\* block_on_future prints the report of a call that returned Err(Some(error))
\* and goes on (the executors of Scripts make calls that succeed)
ReportCall(E, p, c) ==
  LET r == CallResult(E, c)
      E1 == CallResolving(E, p, c)
  IN [E1 EXCEPT !.ex = LogCall(@, p, c.f, r.ret),
                !.rep = IF r.ret = "Err(Some)"
                        THEN Append(@, [src |-> "block_on_future", rid |-> 0, v |-> r.v])
                        ELSE @]

RECURSIVE RunCalls(_, _, _)
RunCalls(E, p, calls) ==
  IF calls = <<>> THEN E
  ELSE RunCalls(ReportCall(E, p, Head(calls)), p, Tail(calls))

\* the closure `native` reporting success whatever the executor returned
ExecutorNativeSwallow(E, p, x) ==
  LET E0 == [E EXCEPT !.ex = Append(@, ExecEvent(p, "begin", "", ""))]
      E1 == RunCalls(E0, p, x.calls)
  IN [E |-> [E1 EXCEPT !.ex = Append(@, ExecEvent(p, "end", "", "Ok"))], ok |-> TRUE]

\* the closure `native` of new_with_executor: runs the host executor with
\* the two resolving functions; an Err is thrown and reported as failure
ExecutorNative(E, p, x) ==
  LET E0 == [E EXCEPT !.ex = Append(@, ExecEvent(p, "begin", "", ""))]
      E1 == RunCalls(E0, p, x.calls)
      E2 == [E1 EXCEPT !.ex = Append(@, ExecEvent(p, "end", "", x.ret))]
  IN IF x.ret = "Ok" THEN [E |-> E2, ok |-> TRUE]
     ELSE [E |-> throw(E2, ErrVal(x.e)), ok |-> FALSE]

\* NewPromiseObject calling the executor a second time
NewPromiseObjectTwice(E, p, x) ==
  LET r == ExecutorNative(ExecutorNative(Alloc(E, p), p, x).E, p, x) IN
  IF r.ok THEN r.E
  ELSE RejectPromise([r.E EXCEPT !.exc = NoExc], p, r.E.exc)

\* NewPromiseObject(cx, executor): the engine calls the executor during
\* construction and turns its exception into a call of the reject function
NewPromiseObject(E, p, x) ==
  LET r == ExecutorNative(Alloc(E, p), p, x) IN
  IF r.ok THEN r.E
  ELSE RejectPromise([r.E EXCEPT !.exc = NoExc], p, r.E.exc)

\* block_on_future with the two arms of the match exchanged
FutureExecutorSwapped(outcome) ==
  IF outcome.ok
  THEN [calls |-> <<[f |-> "reject", v |-> as_value(outcome.h), out |-> outcome.call]>>,
        ret |-> "Ok", e |-> 0]
  ELSE [calls |-> <<[f |-> "resolve", v |-> as_value(outcome.h), out |-> outcome.call]>>,
        ret |-> "Ok", e |-> 0]

\* the executor block_on_future builds around the completed future
FutureExecutor(outcome) ==
  IF outcome.ok
  THEN [calls |-> <<[f |-> "resolve", v |-> as_value(outcome.h), out |-> outcome.call]>>,
        ret |-> "Ok", e |-> 0]
  ELSE [calls |-> <<[f |-> "reject", v |-> as_value(outcome.h), out |-> outcome.call]>>,
        ret |-> "Ok", e |-> 0]

Bool(b) == IF b THEN "true" ELSE "false"
\* the last operation that returned a status to its caller, and the status
Op(op, p, ret, v) == [op |-> op, p |-> p, ret |-> ret, v |-> v]
NoOp == Op("", 0, "", Undefined)

\* how a promise was constructed: the constructor, the first call the
\* executor made of a resolving function (later ones find the promise
\* already resolved), what the executor returned, and the future's output
NoCall == [f |-> "", v |-> Undefined]
FirstCall(x) ==
  IF x.calls = <<>> THEN NoCall ELSE [f |-> Head(x.calls).f, v |-> Head(x.calls).v]
Made(kind, first, ret, h) == [kind |-> kind, first |-> first, ret |-> ret, h |-> h]

Ready == queueInit /\ ~draining

(* ------------------------------ actions -------------------------------- *)
Calls == {[f |-> f, v |-> v, out |-> "ok"] : f \in {"resolve", "reject"}, v \in SettleVals}
Scripts ==
  {[calls |-> cs, ret |-> r[1], e |-> r[2]] :
     cs \in UNION {[1..k -> Calls] : k \in 0..MaxExecCalls},
     r \in {<<"Ok", 0>>, <<"Err", 1>>}}

\* Promise::new
PromiseNew ==
  /\ Ready /\ np < MaxPromises
  /\ Commit(Alloc(Cur, np + 1))
  /\ made' = Append(made, Made("new", NoCall, "", HostInt(0)))
  /\ last' = NoOp
  /\ UNCHANGED <<queueInit, draining, regs, funcs>>

\* Promise::new_with_executor
NewWithExecutor ==
  /\ Ready /\ np < MaxPromises
  /\ \E x \in Scripts :
       /\ Commit(NewPromiseObject(Cur, np + 1, x))
       /\ made' = Append(made, Made("executor", FirstCall(x), x.ret, HostInt(0)))
  /\ last' = NoOp
  /\ UNCHANGED <<queueInit, draining, regs, funcs>>

\* Promise::block_on_future, with the end of the engine's call of the
\* resolving function drawn from outs
BlockOnFutureWith(outs) ==
  /\ Ready /\ np < MaxPromises
  /\ \E ok \in BOOLEAN, h \in HostVals, c \in outs :
       LET x == FutureExecutor([ok |-> ok, h |-> h, call |-> c]) IN
       /\ Commit(NewPromiseObject(Cur, np + 1, x))
       /\ made' = Append(made, Made("future", FirstCall(x), Bool(ok), h))
  /\ last' = Op("block_on_future", np + 1, "Some", Undefined)
  /\ UNCHANGED <<queueInit, draining, regs, funcs>>

\* block_on_future where the engine's call of the resolving function succeeds
BlockOnFuture == BlockOnFutureWith({"ok"})
\* block_on_future with every end of that call
BlockOnFutureAny == BlockOnFutureWith(CallOutcomes)

\* Promise::resolve, with the value drawn from vals
ResolveWith(vals) ==
  /\ Ready
  /\ \E p \in 1..np, v \in vals :
       /\ Commit(ResolvePromise(Cur, p, v))
       /\ last' = Op("resolve", p, Bool(SettleStatus(Cur, p)), Undefined)
  /\ UNCHANGED <<made, queueInit, draining, regs, funcs>>

\* Promise::reject, with the value drawn from vals
RejectWith(vals) ==
  /\ Ready
  /\ \E p \in 1..np, v \in vals :
       /\ Commit(RejectPromise(Cur, p, v))
       /\ last' = Op("reject", p, Bool(SettleStatus(Cur, p)), Undefined)
  /\ UNCHANGED <<made, queueInit, draining, regs, funcs>>

Resolve == ResolveWith(SettleVals)
Reject == RejectWith(SettleVals)
\* the same two operations on one plain value each
ResolvePlain == ResolveWith({IntVal(1)})
RejectPlain == RejectWith({IntVal(2)})

\* the shared tail of the four registration functions: the two handler
\* objects are handed to AddPromiseReactions, whose status is returned
Register(op, p, onF, onR) ==
  /\ Ready /\ Len(regs) < MaxReactions
  /\ regs' = Append(regs, [p |-> p, op |-> op, onF |-> onF, onR |-> onR, at |-> pstate[p]])
  /\ Commit(AddPromiseReactions(Cur, p, Len(regs) + 1))
  /\ last' = NoOp
  /\ UNCHANGED <<made, queueInit, draining, funcs>>

\* Promise::add_reactions
AddReactions == \E p \in 1..np : Register("add_reactions", p, Closure, Closure)

\* Promise::then
Then == \E p \in 1..np : Register("then", p, Closure, Null)

\* Promise::catch
Catch == \E p \in 1..np : Register("catch", p, Null, Closure)

\* Promise::add_reactions_native
AddReactionsNative ==
  \E p \in 1..np, f \in {NativeFn, Null}, r \in {NativeFn, Null} :
     Register("add_reactions_native", p, f, r)

\* handler.rs add_handler_reactions
AddHandlerReactions == \E p \in 1..np : Register("add_handler_reactions", p, Null, ON_REJECTED)

\* calls of queueMicrotask still to come from callbacks that were accepted
Reserved(E) ==
  Cardinality({i \in 1..Len(E.cbs) :
                 E.cbs[i].cb.k = "enqueue" /\ \A j \in 1..Len(E.run) : E.run[j] # i})
Weight(cb) == IF cb.k = "enqueue" THEN 2 ELSE 1
UserCallbacks == {CbNoop, CbEnqueue} \cup {CbResolve(p, 1) : p \in 1..np}

\* queueMicrotask answering Ok without a queue to put the callback on
QueueMicrotaskSilent ==
  /\ ~draining
  /\ \E cb \in UserCallbacks :
       /\ Len(cbs) + Reserved(Cur) + Weight(cb) <= MaxCalls
       /\ Commit(IF queueInit THEN EnqueueUser(Cur, cb, FALSE) ELSE Cur)
       /\ last' = Op("queueMicrotask", 0, "Ok", Undefined)
  /\ UNCHANGED <<made, queueInit, draining, regs, funcs>>

\* queueMicrotask
QueueMicrotask ==
  /\ ~draining
  /\ \E cb \in UserCallbacks :
       /\ Len(cbs) + Reserved(Cur) + Weight(cb) <= MaxCalls
       /\ IF queueInit
          THEN /\ Commit(EnqueueUser(Cur, cb, FALSE))
               /\ last' = Op("queueMicrotask", 0, "Ok", Undefined)
          ELSE /\ Commit(Cur)
               /\ last' = Op("queueMicrotask", 0,
                             "Err(Microtask Queue has not been initialised.)", Undefined)
  /\ UNCHANGED <<made, queueInit, draining, regs, funcs>>

\* the event loop creates the queue
InitQueue ==
  /\ ~queueInit
  /\ queueInit' = TRUE
  /\ last' = NoOp
  /\ UNCHANGED <<made, pstate, presult, locked, reactions, queue, draining, pending,
                 regs, fireLog, reports, cbs, funcs, runLog, execLog>>

\* the event loop's drain: run microtasks from the front until none is left
DrainBegin ==
  /\ Ready
  /\ draining' = TRUE
  /\ last' = NoOp
  /\ UNCHANGED <<made, pstate, presult, locked, reactions, queueInit, queue, pending,
                 regs, fireLog, reports, cbs, funcs, runLog, execLog>>

\* the host handlers a microtask is about to run, with what they may return
Runs(job) ==
  IF job.kind = "Reaction" /\ job.a # 0 /\ BranchHandler(job.a, job.c) \in {Closure, NativeFn}
  THEN HandlerBehs ELSE {[ret |-> "", n |-> 0]}

DrainStep ==
  /\ draining /\ queue # <<>>
  /\ \E b \in Runs(Head(queue)) :
       Commit(RunMicrotask([Cur EXCEPT !.q = Tail(@)], Head(queue), b))
  /\ last' = NoOp
  /\ UNCHANGED <<made, queueInit, draining, regs, funcs>>

DrainEnd ==
  /\ draining /\ queue = <<>>
  /\ draining' = FALSE
  /\ last' = Op("drain_end", 0, "", Undefined)
  /\ UNCHANGED <<made, pstate, presult, locked, reactions, queueInit, queue, pending,
                 regs, fireLog, reports, cbs, funcs, runLog, execLog>>

(* -------------------------- native functions --------------------------- *)
\* what the host callback behind a function does when the engine calls it:
\* return a value, throw an exception, or report failure without one
NativeBehs ==
  {[k |-> "return", n |-> n] : n \in Plain} \cup {[k |-> "throw", n |-> n] : n \in Plain}
    \cup {[k |-> "fail", n |-> 0]}
NotCallable == [k |-> "object", n |-> 0]

\* JS_ObjectIsFunction
is_function_raw(o) == funcs[o].k # "object"

\* throw_type_error(cx, message)
throw_type_error(E) == [E EXCEPT !.exc = TypeErrorVal]

\* IonFunction::from_object yielding None without a TypeError
from_objectNoThrow(E, o) ==
  IF is_function_raw(o) THEN [E |-> E, ret |-> "Some"]
  ELSE [E |-> E, ret |-> "None"]

\* IonFunction::from_object
from_object(E, o) ==
  IF is_function_raw(o) THEN [E |-> E, ret |-> "Some"]
  ELSE [E |-> throw_type_error(E), ret |-> "None"]

\* a value holding one of the engine objects of funcs
FuncObjVal(o) == [t |-> "funcobj", n |-> o]
\* value.is_object()
is_object(v) == v.t \in {"obj", "funcobj"}
\* the TypeError "Value is not an object"
NotAnObjectError == [t |-> "typeerror", n |-> 1]

\* FromJSValConvertible for IonFunction: from_jsval
from_jsval(E, v) ==
  IF ~is_object(v) THEN [E |-> [E EXCEPT !.exc = NotAnObjectError], ret |-> "Err"]
  ELSE LET r == from_object(E, v.n) IN
       IF r.ret = "Some" THEN [E |-> r.E, ret |-> "Ok(Success)"]
       ELSE [E |-> r.E, ret |-> "Err"]

\* JS_CallFunction(cx, this, fun, args, rval)
JS_CallFunction(E, f) ==
  CASE funcs[f].k = "return" -> [E |-> E, ok |-> TRUE, rval |-> IntVal(funcs[f].n)]
    [] funcs[f].k = "throw" -> [E |-> throw(E, ErrVal(funcs[f].n)), ok |-> FALSE, rval |-> Undefined]
    [] funcs[f].k = "fail" -> [E |-> E, ok |-> FALSE, rval |-> Undefined]

\* IonFunction::call answering every failure with Err(None)
callNoReport(E, f) ==
  LET r == JS_CallFunction(E, f) IN
  IF r.ok THEN [E |-> r.E, ret |-> "Ok", v |-> r.rval]
  ELSE [E |-> r.E, ret |-> "Err(None)", v |-> Undefined]

\* IonFunction::call answering a failure without an exception with Ok
callSilentOk(E, f) ==
  LET r == JS_CallFunction(E, f) IN
  IF r.ok THEN [E |-> r.E, ret |-> "Ok", v |-> r.rval]
  ELSE LET x == ExceptionNew(r.E) IN
       IF x.some THEN [E |-> x.E, ret |-> "Err(Some)", v |-> x.exception]
       ELSE [E |-> x.E, ret |-> "Ok", v |-> r.rval]

\* IonFunction::call
call(E, f) ==
  LET r == JS_CallFunction(E, f) IN
  IF r.ok THEN [E |-> r.E, ret |-> "Ok", v |-> r.rval]
  ELSE LET x == ExceptionNew(r.E) IN
       IF x.some THEN [E |-> x.E, ret |-> "Err(Some)", v |-> x.exception]
       ELSE [E |-> x.E, ret |-> "Err(None)", v |-> Undefined]

\* IonFunction::new
NewFunction ==
  /\ Len(funcs) < MaxFuncs
  /\ \E b \in NativeBehs : funcs' = Append(funcs, b)
  /\ last' = NoOp
  /\ UNCHANGED <<made, pstate, presult, locked, reactions, queueInit, queue, draining,
                 pending, regs, fireLog, reports, cbs, runLog, execLog>>

\* an engine object that is not a function reaches the host
NewObject ==
  /\ Len(funcs) < MaxFuncs
  /\ funcs' = Append(funcs, NotCallable)
  /\ last' = NoOp
  /\ UNCHANGED <<made, pstate, presult, locked, reactions, queueInit, queue, draining,
                 pending, regs, fireLog, reports, cbs, runLog, execLog>>

\* the host converts an object to a function
FromObject ==
  /\ \E o \in 1..Len(funcs) :
       LET r == from_object(Cur, o) IN
       /\ Commit(r.E)
       /\ last' = Op("from_object", o, r.ret, Undefined)
  /\ UNCHANGED <<made, queueInit, draining, regs, funcs>>

\* the engine converts a value to a function for the host
FromJSVal ==
  /\ \E v \in {Undefined} \cup {IntVal(k) : k \in Plain}
                 \cup {FuncObjVal(o) : o \in 1..Len(funcs)} :
       LET r == from_jsval(Cur, v) IN
       /\ Commit(r.E)
       /\ last' = Op("from_jsval", IF is_object(v) THEN v.n ELSE 0, r.ret, v)
  /\ UNCHANGED <<made, queueInit, draining, regs, funcs>>

\* the host calls a function
Call ==
  /\ \E f \in 1..Len(funcs) :
       /\ is_function_raw(f)
       /\ LET r == call(Cur, f) IN
          /\ Commit(r.E)
          /\ last' = Op("call", f, r.ret, r.v)
  /\ UNCHANGED <<made, queueInit, draining, regs, funcs>>

\* Promise::from wrapping whatever object it is given
fromAny(v) == [ret |-> "Some", promise |-> v.n]

\* IsPromiseObject behind Promise::is_promise and Promise::is_promise_raw:
\* the objects made by NewPromiseObject are promises, functions and other
\* objects are not
is_promise(v) == v.t = "obj"

\* Promise::from
from(v) ==
  IF is_promise(v) THEN [ret |-> "Some", promise |-> v.n]
  ELSE [ret |-> "None", promise |-> 0]

\* the host wraps an engine object as a promise
PromiseFrom ==
  /\ \E v \in {ObjVal(p) : p \in 1..np} \cup {FuncObjVal(o) : o \in 1..Len(funcs)} :
       last' = Op("from", from(v).promise, from(v).ret, v)
  /\ UNCHANGED <<made, pstate, presult, locked, reactions, queueInit, queue, draining,
                 pending, regs, fireLog, reports, cbs, funcs, runLog, execLog>>

Init ==
  /\ made = <<>>
  /\ pstate = [p \in PIDs |-> "Unalloc"]
  /\ presult = [p \in PIDs |-> Undefined]
  /\ locked = [p \in PIDs |-> FALSE]
  /\ reactions = [p \in PIDs |-> <<>>]
  /\ queueInit = FALSE
  /\ queue = <<>>
  /\ draining = FALSE
  /\ pending = NoExc
  /\ regs = <<>>
  /\ fireLog = <<>>
  /\ reports = <<>>
  /\ cbs = <<>>
  /\ funcs = <<>>
  /\ runLog = <<>>
  /\ execLog = <<>>
  /\ last = NoOp

\* promises, their construction and settlement
NextSettle ==
  \/ InitQueue
  \/ PromiseNew
  \/ NewWithExecutor
  \/ BlockOnFuture
  \/ Resolve
  \/ Reject
  \/ DrainBegin
  \/ DrainStep
  \/ DrainEnd

SpecSettle == Init /\ [][NextSettle]_vars

\* promises and the reactions registered on them
NextReact ==
  \/ InitQueue
  \/ PromiseNew
  \/ ResolvePlain
  \/ RejectPlain
  \/ AddReactions
  \/ Then
  \/ Catch
  \/ AddReactionsNative
  \/ AddHandlerReactions
  \/ DrainBegin
  \/ DrainStep
  \/ DrainEnd

SpecReact == Init /\ [][NextReact]_vars

\* the microtask queue and the callbacks given to queueMicrotask
NextMicro ==
  \/ InitQueue
  \/ PromiseNew
  \/ Then
  \/ QueueMicrotask
  \/ DrainBegin
  \/ DrainStep
  \/ DrainEnd

SpecMicro == Init /\ [][NextMicro]_vars

\* native functions and the exception channel
NextCall ==
  \/ NewFunction
  \/ NewObject
  \/ FromObject
  \/ FromJSVal
  \/ Call

SpecCall == Init /\ [][NextCall]_vars

\* engine objects of both kinds and their adoption as promises
NextFrom ==
  \/ InitQueue
  \/ PromiseNew
  \/ ResolvePlain
  \/ RejectPlain
  \/ NewFunction
  \/ NewObject
  \/ PromiseFrom

SpecFrom == Init /\ [][NextFrom]_vars

\* future-driven construction, and what is queued before and after it
NextFuture ==
  \/ InitQueue
  \/ BlockOnFutureAny
  \/ Then
  \/ DrainBegin
  \/ DrainStep
  \/ DrainEnd

SpecFuture == Init /\ [][NextFuture]_vars

(* ------------------------------- claims -------------------------------- *)
Settled == {"Fulfilled", "Rejected"}
Fired(rid) == Cardinality({i \in 1..Len(fireLog) : fireLog[i].rid = rid /\ fireLog[i].called})
Reported(rid) == Cardinality({i \in 1..Len(reports) : reports[i].rid = rid})
Quiescent == ~draining /\ queue = <<>>

C3_RegistrationDefers ==
  [][/\ Len(regs') > Len(regs) =>
          LET rid == Len(regs')
              p == regs'[rid].p
          IN /\ fireLog' = fireLog
             /\ reports' = reports
             /\ IF pstate[p] = "Pending"
                THEN queue' = queue
                ELSE queue' = Append(queue, ReactionJob(rid, 0, pstate[p], presult[p]))
     /\ fireLog' # fireLog => draining]_vars

\* a handler has been invoked whose reaction was registered on a settled promise
C3_Witness ==
  \E i \in 1..Len(fireLog) : fireLog[i].called /\ regs[fireLog[i].rid].at \in Settled

\* C4: when a drain returns the queue is empty, every callback queueMicrotask
\* accepted has run, also those enqueued by a microtask of this drain, and
\* every reaction of a promise settled by then has had its job run.
C4_DrainFixedPoint ==
  [][(draining /\ ~draining') =>
        /\ queue' = <<>>
        /\ \A t \in 1..Len(cbs') : \E i \in 1..Len(runLog') : runLog'[i] = t
        /\ \A rid \in 1..Len(regs') :
             pstate'[regs'[rid].p] \in Settled
               => \E i \in 1..Len(fireLog') : fireLog'[i].rid = rid]_vars

\* a drain has just returned in which a callback enqueued another callback,
\* which ran, and a callback settled a promise, whose reaction ran
C4_Witness ==
  /\ last.op = "drain_end"
  /\ \E t \in 1..Len(cbs) : cbs[t].inDrain /\ \E i \in 1..Len(runLog) : runLog[i] = t
  /\ \E i \in 1..Len(fireLog) : fireLog[i].called

\* C5: the callbacks accepted by queueMicrotask run in the order of the calls,
\* each once and none skipped: the i-th callback run is the i-th accepted,
\* the queue holds the accepted callbacks not yet run in call order, and when
\* a drain has returned all of them have run.
C5_FifoExactlyOnce ==
  LET userq == SelectSeq(queue, LAMBDA j : j.kind = "User") IN
  /\ \A i \in 1..Len(runLog) : runLog[i] = i
  /\ Len(userq) = Len(cbs) - Len(runLog)
  /\ \A i \in 1..Len(userq) : userq[i].a = Len(runLog) + i
  /\ last.op = "drain_end" => Len(runLog) = Len(cbs)

\* two callbacks queued before any ran have both run, and the drain returned
C5_Witness ==
  /\ last.op = "drain_end"
  /\ Len(cbs) >= 2 /\ Len(runLog) >= 2
  /\ ~cbs[1].inDrain /\ ~cbs[2].inDrain /\ cbs[2].seen = 0

C7_Original ==
  \A p \in 1..np :
    (made[p].kind = "executor" /\ made[p].ret = "Err") => pstate[p] = "Rejected"

\* C7 amended: the error of the executor is thrown and the engine passes it
\* to the promise's reject function, so the promise is Rejected with the
\* error unless the executor had called resolve or reject before it returned
\* the error; then that earlier call decides, and no exception stays pending.
C7_ExecutorError ==
  \A p \in 1..np :
    (made[p].kind = "executor" /\ made[p].ret = "Err") =>
      /\ pending = NoExc
      /\ made[p].first = NoCall => pstate[p] = "Rejected" /\ presult[p] = ErrVal(1)
      /\ made[p].first.f = "reject" => pstate[p] = "Rejected" /\ presult[p] = made[p].first.v
      /\ (made[p].first.f = "resolve" /\ ~IsThenable(made[p].first.v))
           => pstate[p] = "Fulfilled" /\ presult[p] = made[p].first.v

\* an executor that called nothing and returned an error left a Rejected promise
C7_Witness ==
  \E p \in 1..np :
    /\ made[p].kind = "executor" /\ made[p].ret = "Err" /\ made[p].first = NoCall
    /\ pstate[p] = "Rejected"

C9_DefaultReactionOnce ==
  /\ \A rid \in 1..Len(regs) :
       regs[rid].onR = ON_REJECTED =>
         /\ Fired(rid) <= 1
         /\ Reported(rid) = Fired(rid)
         /\ Fired(rid) = 1 => pstate[regs[rid].p] = "Rejected"
         /\ (Quiescent /\ pstate[regs[rid].p] = "Rejected") => Fired(rid) = 1
  /\ \A i \in 1..Len(reports) : regs[reports[i].rid].onR = ON_REJECTED

\* then and the default reaction were attached to a promise already Rejected,
\* a drain has returned, and there is exactly one report
C9_Witness ==
  /\ last.op = "drain_end"
  /\ \E a, b \in 1..Len(regs) :
       /\ regs[a].op = "then" /\ regs[a].at = "Rejected"
       /\ regs[b].op = "add_handler_reactions" /\ regs[b].p = regs[a].p
       /\ Fired(b) = 1
  /\ Len(reports) = 1

\* C10: a call of a function whose host callback throws returns
\* Err(Some(report)) for the thrown exception, and no exception is pending
\* when the call has returned.
C10_ThrowingCall ==
  (last.op = "call" /\ funcs[last.p].k = "throw")
    => /\ last.ret = "Err(Some)"
       /\ last.v = ErrVal(funcs[last.p].n)
       /\ pending = NoExc

\* a function that throws has just been called
C10_Witness == last.op = "call" /\ funcs[last.p].k = "throw"

\* C11: a call returns Ok(value) exactly when the engine call succeeded, with
\* the value the callee returned; a failed call returns Err(Some(report)) when
\* an exception can be taken off the context (the one the callee threw, or one
\* that was pending already) and Err(None) when there is none; it never
\* returns Ok.
C11_CallResult ==
  [][last'.op = "call" =>
       LET k == funcs[last'.p].k IN
       /\ last'.ret \in {"Ok", "Err(Some)", "Err(None)"}
       /\ last'.ret = "Ok" <=> k = "return"
       /\ k = "return" => last'.v = IntVal(funcs[last'.p].n) /\ pending' = pending
       /\ k = "throw" => last'.ret = "Err(Some)"
       /\ k = "fail" =>
            /\ last'.ret = (IF pending = NoExc THEN "Err(None)" ELSE "Err(Some)")
            /\ last'.v = (IF pending = NoExc THEN Undefined ELSE pending)
            /\ pending' = NoExc]_vars

\* a call that failed without an exception has just returned Err(None)
C11_Witness ==
  last.op = "call" /\ funcs[last.p].k = "fail" /\ last.ret = "Err(None)"

\* C12: queueMicrotask called while the queue is not initialised returns the
\* error "Microtask Queue has not been initialised.", leaves the queue and the
\* set of accepted callbacks as they are, and runs nothing; called with the
\* queue initialised it returns Ok and the queue is the old queue with one
\* user item appended.  Only accepted callbacks are ever run.
C12_QueueMicrotask ==
  [][/\ last'.op = "queueMicrotask" =>
          IF queueInit
          THEN /\ last'.ret = "Ok"
               /\ Len(cbs') = Len(cbs) + 1
               /\ queue' = Append(queue, UserTask(Len(cbs')))
               /\ runLog' = runLog
          ELSE /\ last'.ret = "Err(Microtask Queue has not been initialised.)"
               /\ queue' = queue /\ queue = <<>>
               /\ cbs' = cbs
               /\ runLog' = runLog
     /\ \A i \in 1..Len(runLog') : runLog'[i] \in 1..Len(cbs')
     /\ \A i \in 1..Len(queue') : queue'[i].kind = "User" => queue'[i].a \in 1..Len(cbs')]_vars

\* queueMicrotask has just returned the error: there is no queue
C12_Witness ==
  /\ last.op = "queueMicrotask" /\ ~queueInit
  /\ last.ret = "Err(Microtask Queue has not been initialised.)"
  /\ queue = <<>> /\ cbs = <<>>

\* C13: the reactions registered on one promise each have their job run at
\* most once, only when the promise is settled and on its settlement branch;
\* their jobs, and so the handlers of that branch, run in the order of
\* registration; once the queue is drained each reaction of a settled promise
\* has fired exactly once.
C13_ReactionOrder ==
  LET Runs13(rid) == {i \in 1..Len(fireLog) : fireLog[i].rid = rid} IN
  /\ \A rid \in 1..Len(regs) :
       /\ Cardinality(Runs13(rid)) <= 1
       /\ (Quiescent /\ pstate[regs[rid].p] \in Settled) => Cardinality(Runs13(rid)) = 1
  /\ \A i \in 1..Len(fireLog) :
       /\ fireLog[i].branch = pstate[regs[fireLog[i].rid].p]
       /\ fireLog[i].called <=> BranchHandler(fireLog[i].rid, fireLog[i].branch) # Null
  /\ \A i, j \in 1..Len(fireLog) :
       (i < j /\ regs[fireLog[i].rid].p = regs[fireLog[j].rid].p)
         => fireLog[i].rid < fireLog[j].rid

\* two reactions registered on one Pending promise have both had their
\* handler invoked and the drain has returned
C13_Witness ==
  /\ last.op = "drain_end"
  /\ Len(regs) = 2 /\ regs[1].p = regs[2].p
  /\ regs[1].at = "Pending" /\ regs[2].at = "Pending"
  /\ Len(fireLog) = 2 /\ fireLog[1].called /\ fireLog[2].called

\* C14: from_object yields Some(function) exactly when the object is
\* callable, and from_jsval yields Ok exactly when the value is a callable
\* object; then the pending exception is left as it was.  Otherwise they
\* yield None / Err and a TypeError is the pending exception.
C14_NotCallable ==
  [][/\ last'.op = "from_object" =>
          IF is_function_raw(last'.p)
          THEN last'.ret = "Some" /\ pending' = pending
          ELSE last'.ret = "None" /\ pending'.t = "typeerror"
     /\ last'.op = "from_jsval" =>
          IF is_object(last'.v) /\ is_function_raw(last'.p)
          THEN last'.ret = "Ok(Success)" /\ pending' = pending
          ELSE last'.ret = "Err" /\ pending'.t = "typeerror"]_vars

\* from_jsval has just refused an object that is not callable, with no
\* exception pending before
C14_Witness ==
  /\ last.op = "from_jsval" /\ last.ret = "Err"
  /\ last.v.t = "funcobj" /\ funcs[last.p] = NotCallable
  /\ pending = TypeErrorVal

\* C15: Promise::from returns Some(promise) exactly when the object is a
\* promise object, and the promise then wraps that very object, so it shows
\* the object's state and result; for a function or any other object it
\* returns None.
C15_FromAdopts ==
  last.op = "from" =>
    /\ last.ret \in {"Some", "None"}
    /\ last.ret = "Some" <=> (last.v.t = "obj" /\ last.v.n \in 1..np)
    /\ last.ret = "Some" => last.v = ObjVal(last.p) /\ pstate[last.p] # "Unalloc"
    /\ last.ret = "None" => last.v.t = "funcobj" /\ last.p = 0

\* Promise::from has just refused a function object, with a Rejected promise
\* around that it would wrap
C15_Witness ==
  /\ last.op = "from" /\ last.ret = "None"
  /\ is_function_raw(last.v.n)
  /\ \E p \in 1..np : pstate[p] = "Rejected"

\* the reaction jobs that called a handler wrapped by add_reactions, then or catch
ClosureRuns ==
  {i \in 1..Len(fireLog) :
     fireLog[i].called /\ BranchHandler(fireLog[i].rid, fireLog[i].branch) = Closure}
\* the reaction jobs run after job i for the same promise
After(i) ==
  {j \in 1..Len(fireLog) : j > i /\ regs[fireLog[j].rid].p = regs[fireLog[i].rid].p}

C17_RegistrationFrame ==
  [][Len(regs') > Len(regs) => pstate' = pstate /\ presult' = presult]_vars

\* one reaction was registered on a promise while Pending and one after it
\* was Rejected, and the promise still shows the rejection value
C17_Witness ==
  /\ Len(regs) = 2 /\ regs[1].p = regs[2].p
  /\ regs[1].at = "Pending" /\ regs[2].at = "Rejected"
  /\ pstate[regs[1].p] = "Rejected" /\ presult[regs[1].p] = IntVal(2)

\* the executor events of promise p
ExecOf(p) == SelectSeq(execLog, LAMBDA e : e.p = p)

\* C18: the executor given to new_with_executor is invoked once, inside the
\* construction: from the return of new_with_executor on, and whatever
\* settlement or drain step follows, the executor of the promise has begun
\* once and ended once, with its first call in between and with the result
\* it returned; a promise of Promise::new has no executor event.
C18_ExecutorOnce ==
  \A p \in PIDs :
    LET es == ExecOf(p) IN
    /\ (p > np \/ (p <= np /\ made[p].kind = "new")) => es = <<>>
    /\ (p <= np /\ made[p].kind = "executor") =>
         /\ Len(es) = (IF made[p].first = NoCall THEN 2 ELSE 3)
         /\ es[1] = ExecEvent(p, "begin", "", "")
         /\ es[Len(es)] = ExecEvent(p, "end", "", made[p].ret)
         /\ Len(es) = 3 => es[2] = ExecEvent(p, "call", made[p].first.f, "Ok")

\* a drain has returned in which a promise, made by an executor that resolved
\* it with another promise, was settled by adoption; the executor has run once
C18_Witness ==
  /\ last.op = "drain_end"
  /\ \E p \in 1..np :
       /\ made[p].kind = "executor" /\ made[p].first.f = "resolve"
       /\ IsThenable(made[p].first.v) /\ pstate[p] \in Settled
       /\ Len(ExecOf(p)) = 3

C20_SettleFailureReported ==
  [][(last'.op = "block_on_future" /\ execLog'[Len(execLog') - 1].ret # "Ok") =>
       /\ Len(reports') = Len(reports) + 1
       /\ reports'[Len(reports')].src = "block_on_future"
       /\ execLog'[Len(execLog')] = ExecEvent(last'.p, "end", "", "Ok")
       /\ pending' = NoExc
       /\ last'.ret = "Some" /\ pstate'[last'.p] = "Pending"]_vars

\* the reaction jobs of registration rid that invoked a handler
Invoked(rid) == {i \in 1..Len(fireLog) : fireLog[i].rid = rid /\ fireLog[i].called}

\* C21: of the handlers registered with add_reactions, then or catch at most
\* one is invoked for a registration, at most once, and it is the one of the
\* branch on which the promise settled: the first (on_resolved) for a
\* Fulfilled promise, the second (on_rejected) for a Rejected one.  The
\* handler of then is not invoked for a Rejected promise and the handler of
\* catch is not invoked for a Fulfilled one.
C21_BranchExclusive ==
  \A rid \in 1..Len(regs) :
    regs[rid].op \in {"add_reactions", "then", "catch"} =>
      LET st == pstate[regs[rid].p] IN
      /\ Cardinality(Invoked(rid)) <= 1
      /\ \A i \in Invoked(rid) :
           /\ st \in Settled
           /\ fireLog[i].side = (IF st = "Fulfilled" THEN "onF" ELSE "onR")
           /\ regs[rid][fireLog[i].side] = Closure
      /\ (regs[rid].op = "then" /\ st = "Rejected") => Invoked(rid) = {}
      /\ (regs[rid].op = "catch" /\ st = "Fulfilled") => Invoked(rid) = {}

\* add_reactions and then were made on one promise, it was Rejected, and the
\* drain has returned: on_rejected of add_reactions was invoked, the job of
\* then ran without invoking its handler
C21_Witness ==
  /\ last.op = "drain_end"
  /\ \E a, b \in 1..Len(regs) :
       /\ regs[a].op = "add_reactions" /\ regs[b].op = "then" /\ regs[a].p = regs[b].p
       /\ pstate[regs[a].p] = "Rejected"
       /\ Cardinality(Invoked(a)) = 1
       /\ \E i \in 1..Len(fireLog) : fireLog[i].rid = b /\ ~fireLog[i].called

====
